---- MODULE Spec2Model ----
(***************************************************************************)
(* Model of the document segmentation pipeline of src/js/doc-split.js:     *)
(* processDocumentSplit (segment, OCR, classify, reassemble), the          *)
(* workspace tree under <__dirname>/temp, findGroupedFile and              *)
(* cleanupOldFiles.                                                        *)
(*                                                                         *)
(* Strings that the code computes on (directory names, group names, file   *)
(* names) are sequences of one-character strings, so that toString,        *)
(* parseInt and the sanitising replace are computed, not assumed.          *)
(* Node runs the module on one thread: an action is the synchronous code   *)
(* between two awaits of a call.                                           *)
(***************************************************************************)
EXTENDS Integers, Sequences, FiniteSets, TLC

VARIABLES
    now,          \* Date.now(), in milliseconds
    baseExists,   \* whether <__dirname>/temp exists
    dirs,         \* the entries of <__dirname>/temp: name -> entry
    run,          \* per call of processDocumentSplit: its locals and position
    findResult,   \* the last call of findGroupedFile: its argument and outcome
    cleanupResult \* the last call of cleanupOldFiles: its outcome

vars == <<now, baseExists, dirs, run, findResult, cleanupResult>>

----------------------------------------------------------------------------
(* Bounds of the model *)

\* Largest page count of an input document.
MaxPages == 3

\* Number of clock advances the environment may make.
MaxTicks == 1

\* Most pages named by a response that is not an ordering of 1..n.
MaxListed == 2

\* Number of polls of one extraction that the OCR service may leave
\* unanswered (status neither "succeeded" nor "failed").
MaxPolls == 2

\* Longest group name of the specification of file names.
MaxNameLen == 3

----------------------------------------------------------------------------
(* Characters and strings *)

DigitSeq == <<"0", "1", "2", "3", "4", "5", "6", "7", "8", "9">>

LowerSeq == <<"a", "b", "c", "d", "e", "f", "g", "h", "i", "j", "k", "l", "m",
              "n", "o", "p", "q", "r", "s", "t", "u", "v", "w", "x", "y", "z">>

UpperSeq == <<"A", "B", "C", "D", "E", "F", "G", "H", "I", "J", "K", "L", "M",
              "N", "O", "P", "Q", "R", "S", "T", "U", "V", "W", "X", "Y", "Z">>

Range(s) == {s[k] : k \in 1..Len(s)}

IndexIn(s, c) == CHOOSE k \in 1..Len(s) : s[k] = c

IsDigit(c) == c \in Range(DigitSeq)

DigitVal(c) == IndexIn(DigitSeq, c) - 1

\* String.prototype.toLowerCase on one character.
ToLowerChar(c) == IF c \in Range(UpperSeq) THEN LowerSeq[IndexIn(UpperSeq, c)] ELSE c

RECURSIVE ToStringPos(_)
ToStringPos(n) ==
    IF n < 10 THEN <<DigitSeq[n + 1]>>
    ELSE Append(ToStringPos(n \div 10), DigitSeq[(n % 10) + 1])

\* Number.prototype.toString (radix 10) of an integer.
toString(n) == IF n < 0 THEN <<"-">> \o ToStringPos(-n) ELSE ToStringPos(n)

\* A JavaScript number that may be NaN.
NaN == [nan |-> TRUE, val |-> 0]

Num(n) == [nan |-> FALSE, val |-> n]

\* The < operator of JavaScript on numbers: false when either side is NaN.
JsLt(a, b) == (~a.nan) /\ (~b.nan) /\ a.val < b.val

IsWhite(c) == c \in {" ", "\t", "\n"}

RECURSIVE SkipWhite(_)
SkipWhite(s) == IF s # <<>> /\ IsWhite(Head(s)) THEN SkipWhite(Tail(s)) ELSE s

\* The value of the longest prefix of decimal digits of s, after acc.
RECURSIVE DigitsValue(_, _)
DigitsValue(s, acc) ==
    IF s # <<>> /\ IsDigit(Head(s))
    THEN DigitsValue(Tail(s), acc * 10 + DigitVal(Head(s)))
    ELSE acc

HexSeq == <<"0", "1", "2", "3", "4", "5", "6", "7", "8", "9",
            "a", "b", "c", "d", "e", "f">>

IsHex(c) == ToLowerChar(c) \in Range(HexSeq)

RECURSIVE HexValue(_, _)
HexValue(s, acc) ==
    IF s # <<>> /\ IsHex(Head(s))
    THEN HexValue(Tail(s), acc * 16 + (IndexIn(HexSeq, ToLowerChar(Head(s))) - 1))
    ELSE acc

\* parseInt(string) without a radix: leading white space is skipped, a sign is
\* read, "0x" selects base 16, and the longest prefix of digits is the value;
\* NaN when there is no digit. What follows the digits is ignored.
ParseIntUnsigned(s) ==
    IF Len(s) >= 2 /\ s[1] = "0" /\ s[2] \in {"x", "X"}
    THEN IF Len(s) >= 3 /\ IsHex(s[3]) THEN Num(HexValue(SubSeq(s, 3, Len(s)), 0))
         ELSE NaN
    ELSE IF s # <<>> /\ IsDigit(Head(s)) THEN Num(DigitsValue(s, 0))
         ELSE NaN

ParseInt(str) ==
    LET s == SkipWhite(str)
    IN  IF s # <<>> /\ Head(s) = "-"
        THEN LET u == ParseIntUnsigned(Tail(s))
             IN  IF u.nan THEN NaN ELSE Num(-u.val)
        ELSE IF s # <<>> /\ Head(s) = "+" THEN ParseIntUnsigned(Tail(s))
        ELSE ParseIntUnsigned(s)

\* group.name.replace(/[^a-z0-9]/gi, "_").toLowerCase()
\* A replace that lets the dot through.
SanitizeCharKeepsDot(c) ==
    IF c \in Range(LowerSeq) \cup Range(UpperSeq) \cup Range(DigitSeq) \cup {"."}
    THEN ToLowerChar(c)
    ELSE "_"

SanitizeChar(c) ==
    IF c \in Range(LowerSeq) \cup Range(UpperSeq) \cup Range(DigitSeq)
    THEN ToLowerChar(c)
    ELSE "_"

SanitizeName(name) == [k \in 1..Len(name) |-> SanitizeChar(name[k])]

PdfSuffix == <<".", "p", "d", "f">>

\* `${sanitizedName}_${Date.now()}.pdf`
GroupFileName(name, t) == SanitizeName(name) \o <<"_">> \o toString(t) \o PdfSuffix

----------------------------------------------------------------------------
(* Time *)

OneHour == 60 * 60 * 1000

EightyMinutes == 80 * 60 * 1000

\* The clock when the module is loaded.
StartTime == 2 * OneHour

----------------------------------------------------------------------------
(* The workspace tree under <__dirname>/temp *)

NoFiles == [f \in {} |-> <<>>]

\* A workspace as processDocumentSplit creates it: pages/ and groups/.
\* pages maps k, for the file page_k.pdf, and groups maps a file name, to the
\* source page indices (0-based) of the document written under that name.
EmptyWorkspace ==
    [isDir |-> TRUE, hasPages |-> TRUE, hasGroups |-> TRUE, pages |-> NoFiles, groups |-> NoFiles]

\* An entry of temp that no run created: a bare directory or a plain file.
ForeignEntry(isDir) ==
    [isDir |-> isDir, hasPages |-> FALSE, hasGroups |-> FALSE, pages |-> NoFiles, groups |-> NoFiles]

\* fs.existsSync(tempDir)
ExistsDir(name) == baseExists /\ name \in DOMAIN dirs

\* d with the entry of name removed: fs.rmSync(path, {recursive, force}).
RmSync(d, name) == [n \in (DOMAIN d) \ {name} |-> d[n]]

\* fs.mkdirSync(tempDir|pagesDir|groupsDir, {recursive: true}): creates what is
\* missing and keeps what exists.
MkdirWorkspace(d, name) ==
    IF name \in DOMAIN d
    THEN [d EXCEPT ![name].hasPages = TRUE, ![name].hasGroups = TRUE]
    ELSE (name :> EmptyWorkspace) @@ d

----------------------------------------------------------------------------
(* Calls of processDocumentSplit *)

Runs == {1, 2}

NoResponse == [groupsKind |-> "absent", groups |-> <<>>]

NoManifest == [success |-> FALSE, totalPages |-> 0, groups |-> <<>>]

\* The locals of a call, its position pc (with polls, the iterations made by
\* the loop of pollResult for the page at hand), and four records of what
\* happened to it that the code does not keep: ocrFailed, the pages whose
\* extraction failed, classifier, the classifier's outcome ("threw",
\* "nomatch", "unparseable", or "parsed" with the parsed value), skipped, the
\* indices of the groups whose error createGroupedPDFs caught, and reclaimed,
\* whether the sweep has removed the call's workspace.
IdleRun ==
    [pc |-> "idle", tempDir |-> <<>>, startedAt |-> 0, pageCount |-> 0, i |-> 0,
     pageFiles |-> <<>>, pageTexts |-> <<>>, polls |-> 0, ocrFailed |-> {},
     groupingResponse |-> NoResponse,
     g |-> 0, groupedFiles |-> <<>>, manifest |-> NoManifest,
     classifier |-> [outcome |-> "none", value |-> NoResponse], skipped |-> {},
     reclaimed |-> FALSE]

\* A catch block that rethrows and leaves the workspace behind.
FailRunWithLeftover(r, rv) ==
    /\ run' = [run EXCEPT ![r] = [rv EXCEPT !.pc = "threw"]]
    /\ UNCHANGED <<now, baseExists, dirs, findResult, cleanupResult>>

\* The catch block of processDocumentSplit (lines 259-265), entered with the
\* call's locals rv: the workspace is removed when it exists and the error is
\* rethrown.
FailRunWith(r, rv) ==
    /\ run' = [run EXCEPT ![r] = [rv EXCEPT !.pc = "threw"]]
    /\ dirs' = IF ExistsDir(rv.tempDir) THEN RmSync(dirs, rv.tempDir) ELSE dirs
    /\ UNCHANGED <<now, baseExists, findResult, cleanupResult>>

FailRun(r) == FailRunWith(r, run[r])

\* Lines 190-202: the workspace is named by the clock, its directories are
\* made, the upload is read. mkdirSync or readFileSync may throw.
StartRun(r) ==
    /\ run[r].pc = "idle"
    /\ \E fault \in {"none", "mkdir", "read"} :
        LET name == toString(now)
            made == IF baseExists THEN MkdirWorkspace(dirs, name)
                    ELSE (name :> EmptyWorkspace)
        IN  CASE fault = "none" ->
                  /\ run' = [run EXCEPT ![r].pc = "load", ![r].tempDir = name,
                                        ![r].startedAt = now]
                  /\ dirs' = made
                  /\ baseExists' = TRUE
              [] fault = "mkdir" ->
                  \* the first mkdirSync throws: nothing is created, and the
                  \* catch block removes tempDir if it is there already
                  /\ run' = [run EXCEPT ![r].pc = "threw", ![r].tempDir = name,
                                        ![r].startedAt = now]
                  /\ dirs' = IF ExistsDir(name) THEN RmSync(dirs, name) ELSE dirs
                  /\ UNCHANGED baseExists
              [] fault = "read" ->
                  \* the directories are made, readFileSync throws, the catch
                  \* block removes tempDir
                  /\ run' = [run EXCEPT ![r].pc = "threw", ![r].tempDir = name,
                                        ![r].startedAt = now]
                  /\ dirs' = RmSync(made, name)
                  /\ baseExists' = TRUE
    /\ UNCHANGED <<now, findResult, cleanupResult>>

\* Lines 203-204: PDFDocument.load resolves with a document of n pages, or
\* rejects.
LoadDocument(r, PageCounts) ==
    /\ run[r].pc = "load"
    /\ \/ \E n \in PageCounts :
            /\ run' = [run EXCEPT ![r].pageCount = n,
                                  ![r].pc = IF n > 0 THEN "split" ELSE "classify"]
            /\ UNCHANGED <<now, baseExists, dirs, findResult, cleanupResult>>
       \/ FailRun(r)

\* An iteration that copies the first page of the source whatever i is.
SplitPageFirstOnly(r) ==
    /\ run[r].pc = "split"
    /\ \E fault \in {"none", "copy", "write"} :
        LET t == run[r].tempDir
            k == run[r].i + 1
        IN  IF fault = "none" /\ ExistsDir(t) /\ dirs[t].hasPages
            THEN /\ dirs' = [dirs EXCEPT ![t].pages = (k :> <<0>>) @@ @]
                 /\ run' = [run EXCEPT ![r].pageFiles = Append(@, k),
                                       ![r].pc = "ocr_post"]
                 /\ UNCHANGED <<now, baseExists, findResult, cleanupResult>>
            ELSE FailRun(r)

\* Lines 210-219, one iteration up to the OCR request: page i is copied into
\* a document of its own, saved, and written as pages/page_<i+1>.pdf.
\* The copy or the save may reject; writeFileSync throws when the pages
\* directory is gone or the disk fails.
SplitPage(r) ==
    /\ run[r].pc = "split"
    /\ \E fault \in {"none", "copy", "write"} :
        LET t == run[r].tempDir
            k == run[r].i + 1
        IN  IF fault = "none" /\ ExistsDir(t) /\ dirs[t].hasPages
            THEN /\ dirs' = [dirs EXCEPT ![t].pages = (k :> <<run[r].i>>) @@ @]
                 /\ run' = [run EXCEPT ![r].pageFiles = Append(@, k),
                                       ![r].pc = "ocr_post"]
                 /\ UNCHANGED <<now, baseExists, findResult, cleanupResult>>
            ELSE FailRun(r)

\* The text performOCROnFile returns: the content of a result that has
\* some (line 41), which is the text of source page i, whose copy was sent,
\* and "" otherwise (lines 39 and 47).
ContentText(i) == <<"t", DigitSeq[i + 1]>>

EmptyText == <<>>

\* The outcomes of an extraction that are failures of the OCR service.
OcrFailures == {"error", "noheader", "failed", "nocontent"}

\* The catch block of performOCROnFile passes the error on.
OcrResultRethrown(r, outcome) ==
    IF outcome \in OcrFailures \ {"nocontent"}
    THEN FailRun(r)
    ELSE LET k == run[r].i + 1
             text == IF outcome = "succeeded" THEN ContentText(run[r].i) ELSE EmptyText
         IN  /\ run' = [run EXCEPT
                          ![r].pageTexts =
                              Append(@, [pageNumber |-> k, text |-> text, filePath |-> k]),
                          ![r].i = k,
                          ![r].polls = 0,
                          ![r].ocrFailed = IF outcome \in OcrFailures THEN @ \cup {k} ELSE @,
                          ![r].pc = IF k < run[r].pageCount THEN "split" ELSE "classify"]
             /\ UNCHANGED <<now, baseExists, dirs, findResult, cleanupResult>>

\* A loop that goes on to classification after the first extraction.
OcrResultOnePage(r, outcome) ==
    LET k == run[r].i + 1
        text == IF outcome = "succeeded" THEN ContentText(run[r].i) ELSE EmptyText
    IN  /\ run' = [run EXCEPT
                     ![r].pageTexts =
                         Append(@, [pageNumber |-> k, text |-> text, filePath |-> k]),
                     ![r].i = k,
                     ![r].polls = 0,
                     ![r].ocrFailed = IF outcome \in OcrFailures THEN @ \cup {k} ELSE @,
                     ![r].pc = "classify"]
        /\ UNCHANGED <<now, baseExists, dirs, findResult, cleanupResult>>

\* Lines 38-48 and 223-229: performOCROnFile returns the content, or "" when
\* the result has none or an error was caught; the text of page i+1 is
\* recorded and the loop goes on, or ends after the last page.
OcrResult(r, outcome) ==
    LET k == run[r].i + 1
        text == IF outcome = "succeeded" THEN ContentText(run[r].i) ELSE EmptyText
    IN  /\ run' = [run EXCEPT
                     ![r].pageTexts =
                         Append(@, [pageNumber |-> k, text |-> text, filePath |-> k]),
                     ![r].i = k,
                     ![r].polls = 0,
                     ![r].ocrFailed = IF outcome \in OcrFailures THEN @ \cup {k} ELSE @,
                     ![r].pc = IF k < run[r].pageCount THEN "split" ELSE "classify"]
        /\ UNCHANGED <<now, baseExists, dirs, findResult, cleanupResult>>

\* performOCROnFile, lines 28-34: the analyze request. A rejected request or
\* a response without operation-location is caught and gives "".
OcrPost(r) ==
    /\ run[r].pc = "ocr_post"
    /\ \E outcome \in {"accepted", "error", "noheader"} :
        IF outcome = "accepted"
        THEN /\ run' = [run EXCEPT ![r].pc = "ocr_poll"]
             /\ UNCHANGED <<now, baseExists, dirs, findResult, cleanupResult>>
        ELSE OcrResult(r, outcome)

\* pollResult, lines 57-65, one poll, and lines 38-48 once it has returned:
\* "succeeded" ends the loop with the content (or "" without content),
\* "failed" or a rejected request is caught and gives "", any other status
\* waits a second and polls again, with no limit of its own: the service is
\* let to answer so MaxPolls times for a page.
OcrPoll(r) ==
    /\ run[r].pc = "ocr_poll"
    /\ \E status \in {"succeeded", "nocontent", "failed", "error", "running", "cancelled"} :
        IF status \in {"running", "cancelled"}
        THEN /\ run[r].polls < MaxPolls
             /\ run' = [run EXCEPT ![r].polls = @ + 1]
             /\ UNCHANGED <<now, baseExists, dirs, findResult, cleanupResult>>
        ELSE OcrResult(r, status)

----------------------------------------------------------------------------
(* The classifier's response *)

\* A response text is a sequence of segments: prose without braces, a lone
\* "{" or "}", the text of a JSON object (with the value it parses to), or
\* braces around text that is not JSON.
Seg(kind, value) == [seg |-> kind, value |-> value]

Prose == Seg("prose", NoResponse)

Open == Seg("open", NoResponse)

Close == Seg("close", NoResponse)

Broken == Seg("broken", NoResponse)

ObjectText(o) == Seg("object", o)

HasOpen(s) == s.seg \in {"open", "object", "broken"}

HasClose(s) == s.seg \in {"close", "object", "broken"}

\* responseText.match(/\{[\s\S]*\}/): from the first "{" to the last "}" of
\* the text (the quantifier is greedy); <<>> stands for no match.
JsonMatch(text) ==
    LET opens == {k \in 1..Len(text) : HasOpen(text[k])}
        closes == {k \in 1..Len(text) : HasClose(text[k])}
    IN  IF opens = {} \/ closes = {} THEN <<>>
        ELSE LET first == CHOOSE k \in opens : \A m \in opens : k <= m
                 last == CHOOSE k \in closes : \A m \in closes : k >= m
             IN  IF last < first \/ (last = first /\ text[first].seg \notin {"object", "broken"})
                 THEN <<>>
                 ELSE SubSeq(text, first, last)

\* JSON.parse of a matched span: [ok, value]. One object text parses to its
\* value, "{" directly followed by "}" is the empty object, anything else is
\* a SyntaxError.
JsonParse(span) ==
    IF Len(span) = 1 /\ span[1].seg = "object" THEN [ok |-> TRUE, value |-> span[1].value]
    ELSE IF Len(span) = 2 /\ span[1].seg = "open" /\ span[2].seg = "close"
         THEN [ok |-> TRUE, value |-> NoResponse]
         ELSE [ok |-> FALSE, value |-> NoResponse]

\* A group entry of a parsed response: an object (with or without a string
\* name and a list of pages), null, or a primitive (a number, a character of
\* a string).
GroupEntry(name, pages) ==
    [kind |-> "object", hasName |-> TRUE, name |-> name, hasPages |-> TRUE, pages |-> pages]

NullEntry ==
    [kind |-> "null", hasName |-> FALSE, name |-> <<>>, hasPages |-> FALSE, pages |-> <<>>]

PrimitiveEntry ==
    [kind |-> "primitive", hasName |-> FALSE, name |-> <<>>, hasPages |-> FALSE, pages |-> <<>>]

AllPagesName == <<"A", "l", "l", " ", "P", "a", "g", "e", "s">>

\* A fallback that leaves out the last page.
FallbackResponseShort(pageTexts) ==
    [groupsKind |-> "list",
     groups |-> <<GroupEntry(AllPagesName,
                             [k \in 1..(Len(pageTexts) - 1) |-> pageTexts[k].pageNumber])>>]

\* Lines 126-135: the fallback of analyzeDocumentPages.
FallbackResponse(pageTexts) ==
    [groupsKind |-> "list",
     groups |-> <<GroupEntry(AllPagesName,
                             [k \in 1..Len(pageTexts) |-> pageTexts[k].pageNumber])>>]

\* analyzeDocumentPages, lines 99-136, on the classifier's outcome: the call
\* throws, or it answers a text.
AnalyzeDocumentPages(pageTexts, threw, text) ==
    IF threw THEN FallbackResponse(pageTexts)
    ELSE LET jsonMatch == JsonMatch(text)
         IN  IF jsonMatch = <<>> THEN FallbackResponse(pageTexts)
             ELSE LET parsed == JsonParse(jsonMatch)
                  IN  IF parsed.ok THEN parsed.value ELSE FallbackResponse(pageTexts)

----------------------------------------------------------------------------
(* The responses the classifier is let to give for a document of n pages *)

\* Page numbers a response may name: 1..n, and 0 and n+1 out of range.
PageValues(n) == 0..(n + 1)

SeqsUpTo(V, len) == UNION {[1..k -> V] : k \in 0..len}

\* The orderings of 1..n.
Orderings(n) == {f \in [1..n -> 1..n] : \A a, b \in 1..n : f[a] = f[b] => a = b}

\* The page lists a response may spread over its groups: every list of at
\* most MaxListed numbers of PageValues(n) (pages missing, repeated, out of
\* range), and every ordering of 1..n.
PageLists(n) == SeqsUpTo(PageValues(n), MaxListed) \cup Orderings(n)

\* Two names that differ and sanitise to the same string.
GroupNames == {<<"A", "/", "B">>, <<"A", " ", "b">>}

NamelessEntry == [GroupEntry(<<>>, <<1>>) EXCEPT !.hasName = FALSE]

PagelessEntry == [GroupEntry(<<"A", "/", "B">>, <<>>) EXCEPT !.hasPages = FALSE]

MalformedEntries == {NullEntry, PrimitiveEntry, NamelessEntry, PagelessEntry}

\* group lists of at most two entries, as the response names them
OneGroup(e) == [groupsKind |-> "list", groups |-> <<e>>]

TwoGroups(e1, e2) == [groupsKind |-> "list", groups |-> <<e1, e2>>]

\* A response whose text is the object o alone, or o inside prose.
TextsOf(o) == {<<ObjectText(o)>>, <<Prose, ObjectText(o), Prose>>}

\* Texts that hold no span that parses to an object with groups: no brace,
\* braces in the wrong order, braces around text that is not JSON, and an
\* object followed by a further "}" or by a second object.
FailingTexts ==
    LET o == OneGroup(GroupEntry(<<"A", "/", "B">>, <<1>>))
    IN  {<<>>, <<Prose>>, <<Broken>>, <<Prose, Open, Prose>>, <<Close, Open>>,
         <<Open, Prose, Close>>, <<ObjectText(o), Prose, Close>>,
         <<ObjectText(o), Prose, ObjectText(o)>>}

\* Values with "groups" absent (also the text "{}"), a scalar (number,
\* boolean, null, object), a string, or the empty list.
OddObjects ==
    {[groupsKind |-> "absent", groups |-> <<>>],
     [groupsKind |-> "scalar", groups |-> <<>>],
     [groupsKind |-> "string", groups |-> <<PrimitiveEntry>>],
     [groupsKind |-> "list", groups |-> <<>>]}

----------------------------------------------------------------------------
(* Classification and reassembly *)

\* What the classifier did, for the record.
ClassifierOutcome(threw, text) ==
    IF threw THEN [outcome |-> "threw", value |-> NoResponse]
    ELSE IF JsonMatch(text) = <<>> THEN [outcome |-> "nomatch", value |-> NoResponse]
    ELSE IF ~JsonParse(JsonMatch(text)).ok THEN [outcome |-> "unparseable", value |-> NoResponse]
    ELSE [outcome |-> "parsed", value |-> JsonParse(JsonMatch(text)).value]

\* for (const group of groupingResponse.groups), line 148: undefined, null,
\* numbers and plain objects are not iterable.
Iterable(response) == response.groupsKind \in {"list", "string"}

\* Lines 231-237 and 148: analyzeDocumentPages returns, createGroupedPDFs is
\* called and starts its loop, or throws on groups that cannot be iterated.
\* pageTexts is not read after line 233 and the model forgets it there, and
\* with it which extractions failed.
Classify(r, threw, text) ==
    /\ run[r].pc = "classify"
    /\ LET response == AnalyzeDocumentPages(run[r].pageTexts, threw, text)
           rv == [run[r] EXCEPT !.groupingResponse = response, !.pageTexts = <<>>,
                                !.ocrFailed = {}, !.g = 1,
                                !.classifier = ClassifierOutcome(threw, text)]
       IN  IF Iterable(response)
           THEN /\ run' = [run EXCEPT ![r] = [rv EXCEPT !.pc = "group"]]
                /\ UNCHANGED <<now, baseExists, dirs, findResult, cleanupResult>>
           ELSE FailRunWith(r, rv)

\* The pages of the group document re-sorted ascending.
CopiedPagesSorted(pages, pageCount) ==
    LET valid == SelectSeq(pages, LAMBDA p : p - 1 >= 0 /\ p - 1 < pageCount)
    IN  SortSeq([j \in 1..Len(valid) |-> valid[j] - 1], <)

\* Lines 153-161: the pages of the group document, as 0-based indices of the
\* source, in the order of group.pages; a number outside the source is
\* passed over.
RECURSIVE CopiedPages(_, _)
CopiedPages(pages, pageCount) ==
    IF pages = <<>> THEN <<>>
    ELSE LET pageIndex == Head(pages) - 1
             rest == CopiedPages(Tail(pages), pageCount)
         IN  IF pageIndex >= 0 /\ pageIndex < pageCount THEN <<pageIndex>> \o rest ELSE rest

\* A catch block that ends the loop of createGroupedPDFs.
SkipRest(r) ==
    /\ run' = [run EXCEPT ![r].g = Len(run[r].groupingResponse.groups) + 1,
                          ![r].skipped = @ \cup {run[r].g}]
    /\ UNCHANGED <<now, baseExists, dirs, findResult, cleanupResult>>

\* The loop of createGroupedPDFs goes on to the next group.
SkipGroup(r) ==
    /\ run' = [run EXCEPT ![r].g = @ + 1, ![r].skipped = @ \cup {run[r].g}]
    /\ UNCHANGED <<now, baseExists, dirs, findResult, cleanupResult>>

\* Lines 148-183, one iteration. An error inside the try block (no pages to
\* iterate, a rejected copy or save, no name to sanitise, a failed write) is
\* caught and the group is passed over; the catch block reads group.name,
\* which throws out of createGroupedPDFs when the group is null.
CreateGroup(r) ==
    /\ run[r].pc = "group"
    /\ run[r].g <= Len(run[r].groupingResponse.groups)
    /\ \E fault \in {"none", "copy", "write"} :
        LET group == run[r].groupingResponse.groups[run[r].g]
            t == run[r].tempDir
            groupFileName == GroupFileName(group.name, now)
            content == CopiedPages(group.pages, run[r].pageCount)
        IN  CASE group.kind = "null" -> FailRun(r)
              [] group.kind = "primitive" -> SkipGroup(r)
              [] OTHER ->
                  IF /\ group.hasPages
                     /\ group.hasName
                     /\ fault = "none"
                     /\ ExistsDir(t)
                     /\ dirs[t].hasGroups
                  THEN /\ dirs' = [dirs EXCEPT ![t].groups = (groupFileName :> content) @@ @]
                       /\ run' = [run EXCEPT
                                    ![r].groupedFiles =
                                        Append(@, [name |-> group.name,
                                                   description |-> "",
                                                   pages |-> group.pages,
                                                   filePath |-> <<t, groupFileName>>,
                                                   fileName |-> groupFileName]),
                                    ![r].g = @ + 1]
                       /\ UNCHANGED <<now, baseExists, findResult, cleanupResult>>
                  ELSE SkipGroup(r)

\* path.basename(group.filePath)
Basename(filePath) == filePath[Len(filePath)]

\* Lines 244-258: the page files are unlinked and the manifest is returned.
FinishRun(r) ==
    /\ run[r].pc = "group"
    /\ run[r].g > Len(run[r].groupingResponse.groups)
    /\ LET t == run[r].tempDir
           written == {run[r].pageFiles[k] : k \in 1..Len(run[r].pageFiles)}
       IN  /\ dirs' = IF ExistsDir(t)
                      THEN [dirs EXCEPT ![t].pages = [k \in (DOMAIN @) \ written |-> @[k]]]
                      ELSE dirs
           /\ run' = [run EXCEPT
                        ![r].pc = "done",
                        ![r].manifest =
                            [success |-> TRUE,
                             totalPages |-> run[r].pageCount,
                             groups |-> [k \in 1..Len(run[r].groupedFiles) |->
                                           [name |-> run[r].groupedFiles[k].name,
                                            pages |-> run[r].groupedFiles[k].pages,
                                            fileName |-> Basename(run[r].groupedFiles[k].filePath)]]]]
    /\ UNCHANGED <<now, baseExists, findResult, cleanupResult>>

----------------------------------------------------------------------------
(* The clock *)

\* The clock values that at most k advances by steps of Steps reach.
RECURSIVE ClockValues(_, _)
ClockValues(Steps, k) ==
    IF k = 0 THEN {StartTime}
    ELSE LET prev == ClockValues(Steps, k - 1)
         IN  prev \cup {t + d : t \in prev, d \in Steps}

\* Time passes.
Tick(Steps) ==
    /\ \E d \in Steps :
        /\ now + d \in ClockValues(Steps, MaxTicks)
        /\ now' = now + d
    /\ UNCHANGED <<baseExists, dirs, run, findResult, cleanupResult>>

----------------------------------------------------------------------------
(* findGroupedFile and cleanupOldFiles *)

NoFind == [outcome |-> "none", filename |-> <<>>, path |-> <<>>]

\* Lines 270-274 and 295-299: the entries of temp that are directories.
TempDirs == {n \in DOMAIN dirs : dirs[n].isDir}

\* Names of the tree. A path is the sequence of its segments below
\* <__dirname>/temp; a leading ".." segment stands for <__dirname>.
GroupsSeg == <<"g", "r", "o", "u", "p", "s">>

PagesSeg == <<"p", "a", "g", "e", "s">>

Up == <<".", ".">>

\* The file of this module, <__dirname>/doc-split.js.
ModuleFile == <<"d", "o", "c", "-", "s", "p", "l", "i", "t", ".", "j", "s">>

\* `page_${i + 1}.pdf`, line 215
PageFileName(k) == <<"p", "a", "g", "e", "_">> \o toString(k) \o PdfSuffix

\* The segments of a string between its "/" separators.
RECURSIVE SplitPath(_)
SplitPath(str) ==
    IF \A k \in 1..Len(str) : str[k] # "/" THEN <<str>>
    ELSE LET first == CHOOSE k \in 1..Len(str) :
                          str[k] = "/" /\ \A m \in 1..(k - 1) : str[m] # "/"
         IN  <<SubSeq(str, 1, first - 1)>> \o SplitPath(SubSeq(str, first + 1, Len(str)))

\* The normalisation of path.join: empty and "." segments are dropped, ".."
\* takes the last segment away, and stays when there is none to take.
RECURSIVE Normalize(_, _)
Normalize(stack, segs) ==
    IF segs = <<>> THEN stack
    ELSE LET seg == Head(segs)
             next == IF seg = <<>> \/ seg = <<".">> THEN stack
                     ELSE IF seg # Up THEN Append(stack, seg)
                     ELSE IF stack = <<>> \/ stack[Len(stack)] = Up THEN Append(stack, Up)
                     ELSE SubSeq(stack, 1, Len(stack) - 1)
         IN  Normalize(next, Tail(segs))

\* path.join(base, filename), lines 278-280
PathJoin(base, filename) == Normalize(base, SplitPath(filename))

\* fs.existsSync of a path: temp and its tree, and above temp the directory
\* of the module with the module's file.
ExistsSync(path) ==
    CASE path = <<>> -> baseExists
      [] path = <<Up>> \/ path = <<Up, ModuleFile>> -> TRUE
      [] Len(path) >= 1 /\ path[1] = Up /\ path \notin {<<Up>>, <<Up, ModuleFile>>} -> FALSE
      [] OTHER ->
           /\ baseExists
           /\ path[1] \in DOMAIN dirs
           /\ LET d == dirs[path[1]]
              IN  CASE Len(path) = 1 -> TRUE
                    [] Len(path) = 2 ->
                         \/ path[2] = GroupsSeg /\ d.hasGroups
                         \/ path[2] = PagesSeg /\ d.hasPages
                    [] Len(path) = 3 ->
                         \/ path[2] = GroupsSeg /\ d.hasGroups /\ path[3] \in DOMAIN d.groups
                         \/ /\ path[2] = PagesSeg
                            /\ d.hasPages
                            /\ \E k \in DOMAIN d.pages : path[3] = PageFileName(k)
                    [] OTHER -> FALSE

\* Lines 277-287: the paths findGroupedFile can return for filename, one per
\* directory of temp that has a groups directory and where the joined path
\* exists. The first in the order of readdirSync is returned, and that order
\* is the file system's.
FoundPaths(filename) ==
    {PathJoin(<<d, GroupsSeg>>, filename) :
        d \in {n \in TempDirs : /\ ExistsSync(<<n, GroupsSeg>>)
                                /\ ExistsSync(PathJoin(<<n, GroupsSeg>>, filename))}}

\* findGroupedFile(filename): readdirSync throws when temp does not exist.
FindGroupedFile(filename) ==
    /\ UNCHANGED <<now, baseExists, dirs, run, cleanupResult>>
    /\ IF ~baseExists
       THEN findResult' = [outcome |-> "throws", filename |-> filename, path |-> <<>>]
       ELSE IF FoundPaths(filename) = {}
            THEN findResult' = [outcome |-> "null", filename |-> filename, path |-> <<>>]
            ELSE \E p \in FoundPaths(filename) :
                    findResult' = [outcome |-> "path", filename |-> filename, path |-> p]

NoCleanup == [outcome |-> "none", cleanedCount |-> 0]

\* The sweep with its comparison turned round.
OldDirsReversed ==
    LET oneHourAgo == now - OneHour
    IN  {dirName \in TempDirs : JsLt(Num(oneHourAgo), ParseInt(dirName))}

\* Lines 301-312: the directories the sweep removes.
OldDirs ==
    LET oneHourAgo == now - OneHour
    IN  {dirName \in TempDirs : JsLt(ParseInt(dirName), Num(oneHourAgo))}

\* A count of every directory the sweep looked at.
CleanedCountExamined == Cardinality(TempDirs)

\* Lines 302-311: cleanedCount is incremented once after each rmSync.
CleanedCount == Cardinality(OldDirs)

\* A sweep that removes one old directory per call.
CleanupOldFilesOneAtATime ==
    /\ UNCHANGED <<now, baseExists, findResult>>
    /\ IF baseExists /\ OldDirs # {}
       THEN LET one == CHOOSE dirName \in OldDirs : TRUE
            IN  /\ dirs' = [n \in (DOMAIN dirs) \ {one} |-> dirs[n]]
                /\ cleanupResult' = [outcome |-> "cleaned", cleanedCount |-> 1]
                /\ run' = [r \in Runs |->
                             IF run[r].pc # "idle" /\ run[r].tempDir = one
                             THEN [run[r] EXCEPT !.reclaimed = TRUE]
                             ELSE run[r]]
       ELSE /\ dirs' = dirs
            /\ cleanupResult' = [outcome |-> IF baseExists THEN "cleaned" ELSE "nodir",
                                 cleanedCount |-> 0]
            /\ run' = run

\* cleanupOldFiles, lines 291-323. The message of the first branch carries
\* cleanedCount; the message of the second carries no count.
CleanupOldFiles ==
    /\ UNCHANGED <<now, baseExists, findResult>>
    /\ IF baseExists
       THEN /\ dirs' = [n \in (DOMAIN dirs) \ OldDirs |-> dirs[n]]
            /\ cleanupResult' = [outcome |-> "cleaned", cleanedCount |-> CleanedCount]
            /\ run' = [r \in Runs |->
                         IF run[r].pc # "idle" /\ run[r].tempDir \in OldDirs
                         THEN [run[r] EXCEPT !.reclaimed = TRUE]
                         ELSE run[r]]
       ELSE /\ dirs' = dirs
            /\ cleanupResult' = [outcome |-> "nodir", cleanedCount |-> 0]
            /\ run' = run

----------------------------------------------------------------------------
(* Specification of one call: every page count up to MaxPages, every *)
(* classifier response, every fault.                                 *)

Init ==
    /\ now = StartTime
    /\ baseExists = FALSE
    /\ dirs = NoFiles
    /\ run = [r \in Runs |-> IdleRun]
    /\ findResult = NoFind
    /\ cleanupResult = NoCleanup

\* The classifier's outcomes for the document of call r, of n pages: it
\* throws; it answers a text that does not parse; it answers an object with
\* no usable list of groups; it answers one group, or two groups, over a
\* list of PageLists(n) (every partition of 1..n in every order, and lists
\* with pages missing, repeated or out of range), the two groups under the
\* same name or under two names that sanitise alike; it answers a list with
\* a malformed entry.
ClassifyFails(r) ==
    \/ Classify(r, TRUE, <<>>)
    \/ \E text \in FailingTexts : Classify(r, FALSE, text)

ClassifyOdd(r) ==
    \/ Classify(r, FALSE, <<Open, Close>>)
    \/ \E o \in OddObjects : \E text \in TextsOf(o) : Classify(r, FALSE, text)

ClassifyOne(r) ==
    \E pages \in PageLists(run[r].pageCount) :
        \E name \in GroupNames :
            \E text \in TextsOf(OneGroup(GroupEntry(name, pages))) :
                Classify(r, FALSE, text)

ClassifyTwo(r) ==
    \E pages \in PageLists(run[r].pageCount) :
        \E k \in 0..Len(pages) :
            \E name \in GroupNames :
                Classify(r, FALSE,
                         <<ObjectText(TwoGroups(GroupEntry(<<"A", "/", "B">>, SubSeq(pages, 1, k)),
                                                GroupEntry(name, SubSeq(pages, k + 1, Len(pages)))))>>)

ClassifyMalformed(r) ==
    \E m \in MalformedEntries :
        \/ Classify(r, FALSE, <<ObjectText(OneGroup(m))>>)
        \/ \E pages \in SeqsUpTo(PageValues(run[r].pageCount), 1) :
            \E name \in GroupNames :
                \/ Classify(r, FALSE, <<ObjectText(TwoGroups(m, GroupEntry(name, pages)))>>)
                \/ Classify(r, FALSE, <<ObjectText(TwoGroups(GroupEntry(name, pages), m))>>)

ClassifyAny(r) ==
    /\ run[r].pc = "classify"
    /\ \/ ClassifyFails(r)
       \/ ClassifyOdd(r)
       \/ ClassifyOne(r)
       \/ ClassifyTwo(r)
       \/ ClassifyMalformed(r)

Next ==
    \/ StartRun(1)
    \/ LoadDocument(1, 1..MaxPages)
    \/ SplitPage(1)
    \/ OcrPost(1)
    \/ OcrPoll(1)
    \/ ClassifyAny(1)
    \/ CreateGroup(1)
    \/ FinishRun(1)
    \/ Tick({1})

Spec == Init /\ [][Next]_vars

----------------------------------------------------------------------------
(* Specification of the workspace store: two calls of one-page documents, *)
(* which may start in the same millisecond, the sweep and the lookup,     *)
(* over a temp directory that may hold entries no call made.              *)

Abc == <<"a", "b", "c">>

Digits123Abc == <<"1", "2", "3", "a", "b", "c">>

Backup2024 == <<"2", "0", "2", "4", "-", "b", "a", "c", "k", "u", "p">>

\* A plain file whose name reads as an old timestamp.
StaleFile == <<"1", "0", "0">>

\* Entries of temp that no call made: directories whose names are no
\* creation timestamps, and a plain file.
ForeignEntries ==
    (Abc :> ForeignEntry(TRUE)) @@ (Digits123Abc :> ForeignEntry(TRUE))
        @@ (Backup2024 :> ForeignEntry(TRUE)) @@ (StaleFile :> ForeignEntry(FALSE))

InitStore ==
    /\ now = StartTime
    /\ \/ baseExists = FALSE /\ dirs = NoFiles
       \/ baseExists = TRUE /\ dirs = ForeignEntries
    /\ run = [r \in Runs |-> IdleRun]
    /\ findResult = NoFind
    /\ cleanupResult = NoCleanup

\* The classifier throws, answers one group holding the page, answers an
\* object without groups, or answers an empty list of groups.
ClassifyStore(r) ==
    /\ run[r].pc = "classify"
    /\ \/ Classify(r, TRUE, <<>>)
       \/ Classify(r, FALSE, <<ObjectText(OneGroup(GroupEntry(<<"A", "/", "B">>, <<1>>)))>>)
       \/ Classify(r, FALSE, <<Open, Close>>)
       \/ Classify(r, FALSE, <<ObjectText([groupsKind |-> "list", groups |-> <<>>])>>)

\* A file name no call produces.
NeverProduced == <<"x", ".", "p", "d", "f">>

\* The names the lookup is asked for: every name a manifest lists, and one
\* that was never produced.
AskedNames ==
    {NeverProduced} \cup
        UNION {{run[r].manifest.groups[k].fileName : k \in 1..Len(run[r].manifest.groups)} :
               r \in Runs}

\* The clock advances by eighty minutes.
StoreSteps == {EightyMinutes}

\* The two calls are alike, and call 2 is let to start once call 1 has; the
\* OCR service answers each poll of a call with a final status.
NextStore ==
    \/ \E r \in Runs :
        \/ (r = 1 \/ run[1].pc # "idle") /\ StartRun(r)
        \/ LoadDocument(r, {1})
        \/ SplitPage(r)
        \/ OcrPost(r)
        \/ OcrPoll(r) /\ run'[r].pc # "ocr_poll"
        \/ ClassifyStore(r)
        \/ CreateGroup(r)
        \/ FinishRun(r)
    \/ Tick(StoreSteps)
    \/ CleanupOldFiles
    \/ \E filename \in AskedNames : FindGroupedFile(filename)

SpecStore == InitStore /\ [][NextStore]_vars

----------------------------------------------------------------------------
(* Specification of file names and lookup: one call of a one-page          *)
(* document whose classifier names the group with any string of at most    *)
(* MaxNameLen characters of NameChars, and lookups of names that are paths. *)

\* Letters of both cases, a digit, the dot and the two path separators.
NameChars == {"a", "B", "7", ".", "/", "\\"}

ClassifyNamed(r) ==
    /\ run[r].pc = "classify"
    /\ \E name \in SeqsUpTo(NameChars, MaxNameLen) :
          Classify(r, FALSE, <<ObjectText(OneGroup(GroupEntry(name, <<1>>)))>>)

\* "../pages/page_1.pdf"
PathToPageFile == Up \o <<"/">> \o PagesSeg \o <<"/">> \o PageFileName(1)

\* "../../../doc-split.js"
PathToModuleFile == Up \o <<"/">> \o Up \o <<"/">> \o Up \o <<"/">> \o ModuleFile

\* The names the lookup is asked for: the names the manifest lists, a name
\* never produced, the empty name, and two paths that lead out of groups.
AskedPaths ==
    {NeverProduced, <<>>, PathToPageFile, PathToModuleFile}
        \cup {run[1].manifest.groups[k].fileName : k \in 1..Len(run[1].manifest.groups)}

NextFiles ==
    \/ StartRun(1)
    \/ LoadDocument(1, {1})
    \/ SplitPage(1)
    \/ OcrPost(1)
    \/ OcrPoll(1)
    \/ ClassifyNamed(1)
    \/ CreateGroup(1)
    \/ FinishRun(1)
    \/ /\ run[1].pc \in {"group", "done"}
       /\ \E filename \in AskedPaths : FindGroupedFile(filename)

SpecFiles == Init /\ [][NextFiles]_vars

----------------------------------------------------------------------------
(* Properties of one call *)

Done(r) == run[r].pc = "done"

ClassifierFailed(r) == run[r].classifier.outcome \in {"threw", "nomatch", "unparseable"}

\* 1, 2, ..., n
UpTo(n) == [k \in 1..n |-> k]

RECURSIVE Concat(_)
Concat(lists) == IF lists = <<>> THEN <<>> ELSE Head(lists) \o Concat(Tail(lists))

\* The page lists of the manifest of call r, one after the other.
ManifestPages(r) ==
    Concat([k \in 1..Len(run[r].manifest.groups) |-> run[r].manifest.groups[k].pages])

\* seq holds each number of 1..n exactly once, and nothing else.
CoversOnce(seq, n) ==
    /\ Len(seq) = n
    /\ \A p \in 1..n : \E k \in 1..n : seq[k] = p

WellFormed(e) == e.kind = "object" /\ e.hasName /\ e.hasPages

\* The classifier's answer parsed to a list of well-formed groups.
AnsweredGroups(r) ==
    /\ run[r].classifier.outcome = "parsed"
    /\ run[r].classifier.value.groupsKind = "list"
    /\ \A k \in 1..Len(run[r].classifier.value.groups) :
          WellFormed(run[r].classifier.value.groups[k])

\* The classifier's answer is a partition of 1..n into non-empty groups.
AnsweredPartition(r) ==
    /\ AnsweredGroups(r)
    /\ \A k \in 1..Len(run[r].classifier.value.groups) :
          run[r].classifier.value.groups[k].pages # <<>>
    /\ CoversOnce(Concat([k \in 1..Len(run[r].classifier.value.groups) |->
                            run[r].classifier.value.groups[k].pages]),
                  run[r].pageCount)

\* C1: whenever the classifier's response parses, the page lists of the
\* returned manifest hold each page of 1..N exactly once.
C1_CoverageInvariant ==
    \A r \in Runs :
        (Done(r) /\ run[r].classifier.outcome = "parsed")
            => CoversOnce(ManifestPages(r), run[r].pageCount)

\* C2 as stated: when the classifier fails outright (it throws, its text has
\* no {...} span, or the span does not parse), the manifest has exactly one
\* group and its pages are 1, 2, ..., N.
C2_FallbackManifest ==
    \A r \in Runs :
        (Done(r) /\ ClassifierFailed(r))
            => /\ Len(run[r].manifest.groups) = 1
               /\ run[r].manifest.groups[1].pages = UpTo(run[r].pageCount)

\* C2 amended: when the classifier fails outright, the one group handed to
\* reassembly lists 1, 2, ..., N, and the manifest holds exactly that group
\* unless its materialization failed, and then it holds no group.
C2_FallbackGroup ==
    \A r \in Runs :
        (Done(r) /\ ClassifierFailed(r))
            => /\ Len(run[r].groupingResponse.groups) = 1
               /\ run[r].groupingResponse.groups[1].pages = UpTo(run[r].pageCount)
               /\ IF 1 \in run[r].skipped
                  THEN run[r].manifest.groups = <<>>
                  ELSE /\ Len(run[r].manifest.groups) = 1
                       /\ run[r].manifest.groups[1].pages = UpTo(run[r].pageCount)
                       /\ run[r].manifest.groups[1].name = AllPagesName

\* A call of a document of MaxPages pages whose classifier answered text
\* that does not parse has returned the one fallback group.
C2_Witness ==
    \E r \in Runs :
        /\ Done(r)
        /\ run[r].classifier.outcome = "unparseable"
        /\ run[r].pageCount = MaxPages
        /\ Len(run[r].manifest.groups) = 1

\* C3: once segmentation has succeeded, no classifier outcome (exception,
\* missing JSON, unparseable JSON, a parsed object whose groups is absent or
\* not a list) makes the call throw and delete the workspace.
C3_ClassifierNeverAborts ==
    \A r \in Runs :
        (\/ ClassifierFailed(r)
         \/ /\ run[r].classifier.outcome = "parsed"
            /\ run[r].classifier.value.groupsKind # "list")
            => run[r].pc # "threw"

\* C4: a response that parses to an empty list of groups is treated as a
\* failure: the manifest holds the one fallback group with pages 1..N.
C4_EmptyGroupsFallBack ==
    \A r \in Runs :
        (/\ Done(r)
         /\ run[r].classifier.outcome = "parsed"
         /\ run[r].classifier.value = [groupsKind |-> "list", groups |-> <<>>])
            => /\ Len(run[r].manifest.groups) = 1
               /\ run[r].manifest.groups[1].pages = UpTo(run[r].pageCount)

\* C5: a page number outside 1..N in a response of well-formed groups is
\* dropped: no page list of the manifest holds it, no output file holds a
\* page outside the source, and the call does not throw.
C5_OutOfRangeDropped ==
    \A r \in Runs :
        AnsweredGroups(r)
            => /\ run[r].pc # "threw"
               /\ Done(r) => \A k \in 1..Len(ManifestPages(r)) :
                                ManifestPages(r)[k] \in 1..run[r].pageCount
               /\ ExistsDir(run[r].tempDir) =>
                    \A f \in DOMAIN dirs[run[r].tempDir].groups :
                        \A k \in 1..Len(dirs[run[r].tempDir].groups[f]) :
                            dirs[run[r].tempDir].groups[f][k] \in 0..(run[r].pageCount - 1)

\* C6: when createGroupedPDFs has built the document of a group whose page
\* list names only pages of 1..N, that document holds the source pages in
\* exactly the listed order.
C6_OrderPreserved ==
    [][\A r \in Runs :
          Len(run'[r].groupedFiles) = Len(run[r].groupedFiles) + 1
              => LET e == run'[r].groupedFiles[Len(run'[r].groupedFiles)]
                 IN  (\A j \in 1..Len(e.pages) : e.pages[j] \in 1..run[r].pageCount)
                        => dirs'[run[r].tempDir].groups[e.fileName]
                             = [j \in 1..Len(e.pages) |-> e.pages[j] - 1]]_vars

\* The list [3,1,2] has been materialized as source pages 3, 1, 2.
C6_Witness ==
    \E r \in Runs :
        /\ ExistsDir(run[r].tempDir)
        /\ \E k \in 1..Len(run[r].groupedFiles) :
              /\ run[r].groupedFiles[k].pages = <<3, 1, 2>>
              /\ run[r].groupedFiles[k].fileName \in DOMAIN dirs[run[r].tempDir].groups
              /\ dirs[run[r].tempDir].groups[run[r].groupedFiles[k].fileName] = <<2, 0, 1>>

\* C7: when the classifier answers a partition of 1..N and no
\* materialization fails, the manifest has one entry per classifier group,
\* in order, each output file holds as many pages as its group lists, and
\* totalPages is N.
C7_EndToEnd ==
    \A r \in Runs :
        (Done(r) /\ AnsweredPartition(r) /\ run[r].skipped = {})
            => LET groups == run[r].classifier.value.groups
                   listed == run[r].manifest.groups
               IN  /\ run[r].manifest.totalPages = run[r].pageCount
                   /\ Len(listed) = Len(groups)
                   /\ \A k \in 1..Len(listed) :
                         /\ listed[k].name = groups[k].name
                         /\ listed[k].pages = groups[k].pages
                         /\ ExistsDir(run[r].tempDir)
                         /\ listed[k].fileName \in DOMAIN dirs[run[r].tempDir].groups
                         /\ Len(dirs[run[r].tempDir].groups[listed[k].fileName])
                              = Len(listed[k].pages)

----------------------------------------------------------------------------
(* Properties of the workspace store *)

\* The file names the manifest of call r lists.
ManifestNames(r) ==
    {run[r].manifest.groups[k].fileName : k \in 1..Len(run[r].manifest.groups)}

\* C8: findGroupedFile returns null for a name no call produced, and for a
\* name listed in the manifest of a completed call it returns the path of
\* that artifact while the sweep has not reclaimed the call's workspace.
C8_FindArtifact ==
    [][\A filename \in AskedNames :
          FindGroupedFile(filename)
              => /\ (\A r \in Runs : filename \notin ManifestNames(r))
                        => findResult'.outcome = "null"
                 /\ \A r \in Runs :
                        (Done(r) /\ filename \in ManifestNames(r) /\ ~run[r].reclaimed)
                            => /\ findResult'.outcome = "path"
                               /\ findResult'.path = <<run[r].tempDir, GroupsSeg, filename>>]_vars

\* C9: cleanupOldFiles removes every workspace created more than one hour
\* before the current time and leaves every workspace created less than one
\* hour ago as it is, contents included.
C9_SweepByAge ==
    [][CleanupOldFiles
          => \A r \in Runs :
                (run[r].pc # "idle" /\ ExistsDir(run[r].tempDir))
                    => /\ (now - run[r].startedAt > OneHour)
                            => run[r].tempDir \notin DOMAIN dirs'
                       /\ (now - run[r].startedAt < OneHour)
                            => /\ run[r].tempDir \in DOMAIN dirs'
                               /\ dirs'[run[r].tempDir] = dirs[run[r].tempDir]]_vars

\* A sweep has removed the workspace of a call made 80 minutes earlier, and
\* the workspace of a completed call younger than an hour is there with its
\* output file.
C9_Witness ==
    /\ cleanupResult.outcome = "cleaned"
    /\ cleanupResult.cleanedCount >= 1
    /\ \E old \in Runs, young \in Runs :
          /\ run[old].reclaimed
          /\ now - run[old].startedAt > OneHour
          /\ Done(young)
          /\ now - run[young].startedAt < OneHour
          /\ ExistsDir(run[young].tempDir)
          /\ ManifestNames(young) # {}
          /\ ManifestNames(young) \subseteq DOMAIN dirs[run[young].tempDir].groups

\* C10: the sweep never deletes a directory whose name is no creation
\* timestamp ("abc", "123abc", "2024-backup").
C10_SkipsNonConforming ==
    [][CleanupOldFiles
          => \A name \in {Abc, Digits123Abc, Backup2024} :
                name \in DOMAIN dirs => name \in DOMAIN dirs']_vars

----------------------------------------------------------------------------
(* Properties of extraction and of failures *)

\* Call r has started and has neither returned nor thrown.
InProgress(r) == run[r].pc \notin {"idle", "done", "threw"}

\* C11: the sweep never deletes the workspace of a call that is in progress.
C11_SweepSparesActive ==
    [][CleanupOldFiles
          => \A r \in Runs :
                (InProgress(r) /\ ExistsDir(run[r].tempDir))
                    => run[r].tempDir \in DOMAIN dirs']_vars

\* C12: pollResult gives up after a fixed number of polls: the loop never
\* makes as many as MaxPolls iterations for one page.
C12_BoundedPolls ==
    \A r \in Runs : run[r].polls < MaxPolls

\* C13: an extraction never ends in a throw; it adds the page to pageTexts,
\* with the empty text when the OCR service failed; and the texts handed to
\* the classifier hold every page of 1..N, the failed ones with empty text.
C13_OcrFailureGivesEmptyText ==
    [][\A r \in Runs :
          /\ (run[r].pc \in {"ocr_post", "ocr_poll"} /\ run'[r].pc \notin {"ocr_post", "ocr_poll"})
                => /\ run'[r].pc \in {"split", "classify"}
                   /\ Len(run'[r].pageTexts) = Len(run[r].pageTexts) + 1
                   /\ run'[r].pageTexts[Len(run'[r].pageTexts)].pageNumber = run[r].i + 1
                   /\ (run[r].i + 1) \in run'[r].ocrFailed
                         => run'[r].pageTexts[Len(run'[r].pageTexts)].text = EmptyText
          /\ run[r].pc = "classify"
                => /\ Len(run[r].pageTexts) = run[r].pageCount
                   /\ \A k \in 1..Len(run[r].pageTexts) :
                         /\ run[r].pageTexts[k].pageNumber = k
                         /\ k \in run[r].ocrFailed => run[r].pageTexts[k].text = EmptyText]_vars

\* The texts of a document of MaxPages pages are about to be classified:
\* the extraction of page 1 failed, the last page has content.
C13_Witness ==
    \E r \in Runs :
        /\ run[r].pc = "classify"
        /\ run[r].pageCount = MaxPages
        /\ 1 \in run[r].ocrFailed
        /\ run[r].pageTexts[1].text = EmptyText
        /\ run[r].pageTexts[MaxPages].text = ContentText(MaxPages - 1)

\* C14: when a call throws, its workspace directory does not exist at that
\* moment and no manifest has been returned.
C14_FatalCleansUp ==
    [][\A r \in Runs :
          (run[r].pc # "threw" /\ run'[r].pc = "threw")
              => /\ ~(baseExists' /\ run'[r].tempDir \in DOMAIN dirs')
                 /\ run'[r].manifest = NoManifest]_vars

\* A call has thrown during segmentation, after it had written a page file,
\* and its workspace is gone.
C14_Witness ==
    \E r \in Runs :
        /\ run[r].pc = "threw"
        /\ run[r].classifier.outcome = "none"
        /\ Len(run[r].pageFiles) >= 1
        /\ ~ExistsDir(run[r].tempDir)

\* The indices of the classifier's groups whose materialization did not fail.
KeptIndices(r) ==
    SelectSeq([k \in 1..Len(run[r].classifier.value.groups) |-> k],
              LAMBDA k : k \notin run[r].skipped)

\* C15: when the classifier answers well-formed groups, a failure while
\* materializing a group omits that group only: the call does not throw, and
\* the manifest lists every other group, in order, each with a file in the
\* groups directory.
C15_OnlyFailedGroupOmitted ==
    \A r \in Runs :
        AnsweredGroups(r)
            => /\ run[r].pc # "threw"
               /\ Done(r)
                    => LET groups == run[r].classifier.value.groups
                           kept == KeptIndices(r)
                           listed == run[r].manifest.groups
                       IN  /\ run[r].manifest.success
                           /\ Len(listed) = Len(kept)
                           /\ ExistsDir(run[r].tempDir)
                           /\ \A j \in 1..Len(listed) :
                                 /\ listed[j].name = groups[kept[j]].name
                                 /\ listed[j].pages = groups[kept[j]].pages
                                 /\ listed[j].fileName \in DOMAIN dirs[run[r].tempDir].groups

\* Of two groups the first failed, and the manifest lists the second.
C15_Witness ==
    \E r \in Runs :
        /\ Done(r)
        /\ AnsweredGroups(r)
        /\ Len(run[r].classifier.value.groups) = 2
        /\ run[r].skipped = {1}
        /\ Len(run[r].manifest.groups) = 1
        /\ run[r].manifest.groups[1].pages = run[r].classifier.value.groups[2].pages

\* A group was omitted from the manifest of call r, or the fallback group
\* was substituted.
Degraded(r) == run[r].skipped # {} \/ ClassifierFailed(r)

\* C16: a degraded call never returns the manifest that a call without
\* degradation returns.
C16_DegradationVisible ==
    \A r1, r2 \in Runs :
        (Done(r1) /\ Done(r2) /\ Degraded(r1) /\ ~Degraded(r2))
            => run[r1].manifest # run[r2].manifest

\* C17: two calls never have the same workspace directory.
C17_DistinctWorkspaces ==
    \A r1, r2 \in Runs :
        (r1 # r2 /\ run[r1].pc # "idle" /\ run[r2].pc # "idle")
            => run[r1].tempDir # run[r2].tempDir

\* C18: findGroupedFile never throws; a name that is in no workspace,
\* with or without a temp directory, gives null.
C18_FindNeverThrows ==
    findResult.outcome # "throws"

\* C19: the count cleanupOldFiles reports is the number of directories this
\* call removed, 0 when it removed none; without a temp directory nothing is
\* removed.
C19_CountIsRemoved ==
    [][CleanupOldFiles
          => /\ cleanupResult'.outcome = "cleaned"
                  => cleanupResult'.cleanedCount = Cardinality((DOMAIN dirs) \ (DOMAIN dirs'))
             /\ cleanupResult'.outcome = "nodir" => dirs' = dirs]_vars

\* A sweep has removed one directory, the workspace of a call, and reported 1.
C19_Witness ==
    /\ cleanupResult.outcome = "cleaned"
    /\ cleanupResult.cleanedCount = 1
    /\ \E r \in Runs : run[r].reclaimed /\ ~ExistsDir(run[r].tempDir)

\* C20: at the moment a call returns or throws, none of the page files it
\* wrote exists, and on return the workspace is there with its groups
\* directory and the files the manifest lists.
C20_PagesGoneAtEnd ==
    [][\A r \in Runs :
          (run[r].pc \notin {"done", "threw"} /\ run'[r].pc \in {"done", "threw"})
              => LET t == run'[r].tempDir
                     there == baseExists' /\ t \in DOMAIN dirs'
                 IN  /\ there => \A k \in 1..Len(run'[r].pageFiles) :
                                    run'[r].pageFiles[k] \notin DOMAIN dirs'[t].pages
                     /\ run'[r].pc = "done"
                          => /\ there
                             /\ dirs'[t].hasGroups
                             /\ \A k \in 1..Len(run'[r].manifest.groups) :
                                   run'[r].manifest.groups[k].fileName
                                       \in DOMAIN dirs'[t].groups]_vars

----------------------------------------------------------------------------
(* Properties of segmentation and of the order of the steps *)

\* C21: while a call segments its document and when it hands the texts to
\* the classifier, record k of pageTexts has pageNumber k, names the file
\* page_k.pdf, which holds the copy of source page k-1, and holds the text
\* of that page or the empty text; at classification there are N records.
C21_PageRecords ==
    \A r \in Runs :
        run[r].pc \in {"split", "ocr_post", "ocr_poll", "classify"}
            => /\ Len(run[r].pageTexts) = run[r].i
               /\ run[r].pc = "classify" => Len(run[r].pageTexts) = run[r].pageCount
               /\ ExistsDir(run[r].tempDir)
               /\ \A k \in 1..Len(run[r].pageTexts) :
                     /\ run[r].pageTexts[k].pageNumber = k
                     /\ run[r].pageTexts[k].filePath = k
                     /\ run[r].pageTexts[k].text \in {EmptyText, ContentText(k - 1)}
                     /\ k \in DOMAIN dirs[run[r].tempDir].pages
                     /\ dirs[run[r].tempDir].pages[k] = <<k - 1>>

\* The records of a document of MaxPages pages, each with the text of its
\* page, are about to be classified.
C21_Witness ==
    \E r \in Runs :
        /\ run[r].pc = "classify"
        /\ run[r].pageCount = MaxPages
        /\ Len(run[r].pageTexts) = MaxPages
        /\ \A k \in 1..MaxPages : run[r].pageTexts[k].text = ContentText(k - 1)

\* C22: the step that calls the classifier is taken once per call, when
\* the loop over the pages has ended: every page has a record and no
\* extraction is pending; and a call that returns has called it.
C22_ClassifyAfterExtraction ==
    [][\A r \in Runs :
          /\ run'[r].classifier # run[r].classifier
                => /\ run[r].classifier.outcome = "none"
                   /\ run[r].pc = "classify"
                   /\ run[r].i = run[r].pageCount
                   /\ Len(run[r].pageTexts) = run[r].pageCount
                   /\ run[r].polls = 0
          /\ run'[r].pc \in {"group", "done"} => run'[r].classifier.outcome # "none"
          /\ run[r].pc = "classify" => Len(run[r].pageTexts) = run[r].pageCount]_vars

\* The classifier has answered for a document of MaxPages pages and the
\* groups are being written.
C22_Witness ==
    \E r \in Runs :
        /\ run[r].pc = "group"
        /\ run[r].pageCount = MaxPages
        /\ run[r].i = MaxPages
        /\ run[r].classifier.outcome = "parsed"

----------------------------------------------------------------------------
(* Properties of file names and of the lookup *)

SafeChars == Range(LowerSeq) \cup Range(DigitSeq) \cup {"_"}

\* f is characters of a-z, 0-9 and "_", then "_", digits and ".pdf".
SafeFileName(f) ==
    LET n == Len(f)
    IN  /\ n >= 6
        /\ SubSeq(f, n - 3, n) = PdfSuffix
        /\ \E j \in 1..(n - 5) :
              /\ f[j] = "_"
              /\ \A k \in 1..(j - 1) : f[k] \in SafeChars
              /\ \A k \in (j + 1)..(n - 4) : IsDigit(f[k])
        /\ \A k \in 1..n : f[k] \notin {"/", "\\"}
        /\ \A seg \in Range(SplitPath(f)) : seg # Up

\* C23: every file of a groups directory, and every fileName of a manifest,
\* is made of a-z, 0-9 and "_" followed by "_<timestamp>.pdf", with no path
\* separator and no ".." component, whatever the group is named.
C23_SafeFileNames ==
    \A r \in Runs :
        /\ ExistsDir(run[r].tempDir)
              => \A f \in DOMAIN dirs[run[r].tempDir].groups : SafeFileName(f)
        /\ \A k \in 1..Len(run[r].groupedFiles) : SafeFileName(run[r].groupedFiles[k].fileName)
        /\ \A k \in 1..Len(run[r].manifest.groups) : SafeFileName(run[r].manifest.groups[k].fileName)

\* The group named "../" has been written as ___<timestamp>.pdf and is listed.
C23_Witness ==
    \E r \in Runs :
        /\ Done(r)
        /\ run[r].classifier.outcome = "parsed"
        /\ run[r].classifier.value.groups[1].name = <<".", ".", "/">>
        /\ Len(run[r].manifest.groups) = 1
        /\ run[r].manifest.groups[1].fileName
             = <<"_", "_", "_", "_">> \o toString(run[r].startedAt) \o PdfSuffix
        /\ run[r].manifest.groups[1].fileName \in DOMAIN dirs[run[r].tempDir].groups

\* C26: a path findGroupedFile returns is a file directly in the groups
\* directory of a workspace.
C26_PathInsideGroups ==
    findResult.outcome = "path"
        => /\ Len(findResult.path) = 3
           /\ findResult.path[2] = GroupsSeg

\* A response of one group.
FirstObject == OneGroup(GroupEntry(<<"A", "/", "B">>, <<1>>))

\* C24: a response that holds one JSON object followed by text with a
\* further "}", or by a second object, is parsed to the first object.
C24_FirstBalancedSpan ==
    [][\A r \in Runs :
          \A text \in {<<ObjectText(FirstObject), Prose, Close>>,
                       <<ObjectText(FirstObject), Prose, ObjectText(FirstObject)>>} :
              Classify(r, FALSE, text)
                  => /\ run'[r].classifier.outcome = "parsed"
                     /\ run'[r].groupingResponse = FirstObject]_vars

\* C25: after a sweep, a second sweep at once finds no directory to remove
\* and counts 0; and a call that throws when its workspace is not there
\* leaves the tree as it is.
C25_RemovalIdempotent ==
    [][/\ CleanupOldFiles => (OldDirs' = {} /\ CleanedCount' = 0)
       /\ \A r \in Runs :
             (/\ run[r].pc # "threw"
              /\ run'[r].pc = "threw"
              /\ ~ExistsDir(run'[r].tempDir))
                 => dirs' = dirs]_vars

\* A sweep has reported 0 after a sweep that removed the workspace of a
\* call, while another workspace is there.
C25_Witness ==
    /\ cleanupResult.outcome = "cleaned"
    /\ cleanupResult.cleanedCount = 0
    /\ OldDirs = {}
    /\ \E old \in Runs, young \in Runs :
          /\ run[old].reclaimed
          /\ ~ExistsDir(run[old].tempDir)
          /\ ExistsDir(run[young].tempDir)

\* C27: within one call no two groups are written under the same fileName.
C27_DistinctFileNames ==
    \A r \in Runs :
        \A j, k \in 1..Len(run[r].groupedFiles) :
            j # k => run[r].groupedFiles[j].fileName # run[r].groupedFiles[k].fileName

\* C28: while the workspace of a completed call holds a file its manifest
\* lists, findGroupedFile returns for that fileName the path of this file.
C28_FindOwnArtifact ==
    [][\A filename \in AskedNames :
          FindGroupedFile(filename)
              => \A r \in Runs :
                    (/\ Done(r)
                     /\ filename \in ManifestNames(r)
                     /\ ExistsSync(<<run[r].tempDir, GroupsSeg, filename>>))
                        => findResult'.path = <<run[r].tempDir, GroupsSeg, filename>>]_vars

\* C29: for every group the manifest lists, the file named by fileName
\* holds the source pages of the group's pages list, element by element.
C29_ManifestMatchesFiles ==
    \A r \in Runs :
        (Done(r) /\ ExistsDir(run[r].tempDir))
            => \A k \in 1..Len(run[r].manifest.groups) :
                  LET e == run[r].manifest.groups[k]
                  IN  /\ e.fileName \in DOMAIN dirs[run[r].tempDir].groups
                      /\ dirs[run[r].tempDir].groups[e.fileName]
                           = [j \in 1..Len(e.pages) |-> e.pages[j] - 1]

\* C30: a response whose list of groups holds a malformed entry (null, a
\* primitive, no name, no pages) does not make the call throw.
C30_MalformedEntrySkipped ==
    \A r \in Runs :
        (/\ run[r].classifier.outcome = "parsed"
         /\ run[r].classifier.value.groupsKind = "list"
         /\ \E k \in 1..Len(run[r].classifier.value.groups) :
               ~WellFormed(run[r].classifier.value.groups[k]))
            => run[r].pc # "threw"

====
